---- MODULE Spec2Model ----
(***************************************************************************)
(* A model of the rslogger crate: the Logger builder and dispatcher of     *)
(* src/src/lib.rs and the BufferedWriter sink of src/src/writer.rs, with   *)
(* the std::io::BufWriter, std::sync::RwLock and std::sync::mpsc channel   *)
(* behaviour the code relies on.                                           *)
(***************************************************************************)
EXTENDS Integers, Sequences, FiniteSets, TLC

(***************************************************************************)
(* Bounds of the model.                                                    *)
(***************************************************************************)
NumProducers == 2
MaxSinks == 2
MaxLogs == 3
MaxWrites == 3
MaxFlushes == 2
MaxOps == 4
MaxCap == 3
MaxFaults == 1
MaxShortWrites == 1
MaxOtherInits == 1

\* writer.rs:10
DEFAULT_BUFFER_CAPACITY == 100

Producers == 1..NumProducers

(***************************************************************************)
(* log::LevelFilter and log::Level, ordered as the log crate orders them:  *)
(* Off < Error < Warn < Info < Debug < Trace.                              *)
(***************************************************************************)
LevelNum ==
  [Off |-> 0, Error |-> 1, Warn |-> 2, Info |-> 3, Debug |-> 4, Trace |-> 5]

\* The levels the builder and the producers draw their inputs from.
GlobalLevelInputs == {"Info"}
SinkLevelInputs == {"Warn"}
RecordLevels == {"Error", "Debug"}

\* Option<usize> of add_writer_*: None is <<>>, Some(c) is <<c>>.
CapacityInputs == {<<0>>, <<MaxCap>>}

(***************************************************************************)
(* Bytes.  The formatted record of producer p's k-th log call is a run of  *)
(* MsgLen(p) bytes <<p, k>> (the threads' records differ in length, as     *)
(* their names in the line do); the line terminator "\n" is NL.            *)
(***************************************************************************)
NL == <<0, 0>>
MsgLen(p) == p

VARIABLES
  phase,          \* "building", "initialized" (registered, 'static) or "dropped"
  log_level,      \* Logger.log_level
  writers,        \* Logger.writers: the BufferedWriter structs, in insertion order
  wlock,          \* the RwLock around each BufferedWriter of Logger.writers
  bufw,           \* each sink's RwLock<BufWriter<..>>: capacity, buffered bytes, poison
  stream,         \* each sink's underlying stdout or file: bytes so far, failing or not
  chan,           \* each sink's mpsc channel: queued messages, receiver alive or not
  worker,         \* each sink's spawned thread: "none", "running", "panicked", "terminated"
  global_logger,  \* the log crate's registered logger: "none", "this", "other"
  max_level,      \* the log crate's global maximum level
  pc,             \* each producer thread's position
  idx,            \* each producer's position in the loop over self.writers
  msg,            \* each producer's formatted message of the call in progress
  calls,          \* history: per producer, the levels of the records passed to log
  late,           \* history: the producer's call in progress began after a flush returned
  flushes,        \* history: Logger::flush calls started and returned
  written,        \* history: per sink, the messages whose BufferedWriter::write returned
  applied,        \* history: per sink, the messages its worker took off the queue
  shorts,         \* history: the number of write calls the streams took only part of
  attempts,       \* history: how the init of each add_writer_* call ended
  last_op,        \* history: per sink, the last operation on its BufWriter and its end
  inits,          \* history: the init calls so far, <<whose logger, "ok" or "err">>
  options,        \* Logger.timestamps, Logger.thread, Logger.target
  builder_call    \* history: the last builder option method called, with its argument

vars ==
  << phase, log_level, writers, wlock, bufw, stream, chan, worker, global_logger,
     max_level, pc, idx, msg, calls, late, flushes, written, applied, shorts,
     attempts, last_op, inits, options, builder_call >>


(***************************************************************************)
(* std::io::BufWriter<W>, as BufferedWriter uses it.  b is the BufWriter   *)
(* ([capacity, buf, poisoned]), s the underlying stream ([bytes, broken]). *)
(* Each operation returns [ok, b, s]; ok = FALSE is an Err(io::Error).     *)
(***************************************************************************)
IoResult(ok, b, s) == [ok |-> ok, b |-> b, s |-> s]

\* A flush_buf that writes the buffer out and forgets to empty it.
flush_buf_keep(b, s) ==
  IF b.buf = <<>> THEN IoResult(TRUE, b, s)
  ELSE IF s.broken THEN IoResult(FALSE, b, s)
  ELSE IoResult(TRUE, b, [s EXCEPT !.bytes = @ \o b.buf])

\* BufWriter::flush_buf: write_all of the buffer to the inner writer (it retries
\* short writes until the buffer is empty), an error if the stream fails.
flush_buf(b, s) ==
  IF b.buf = <<>> THEN IoResult(TRUE, b, s)
  ELSE IF s.broken THEN IoResult(FALSE, b, s)
  ELSE IoResult(TRUE, [b EXCEPT !.buf = <<>>], [s EXCEPT !.bytes = @ \o b.buf])

\* BufWriter::write(data): data that fits the spare capacity is buffered; otherwise
\* the buffer is flushed when data exceeds the spare capacity, and data at least as
\* long as the capacity goes to the inner writer in ONE write call, which accepts
\* `accepted` bytes of it (Write::write may accept fewer than it is given).
BufWriter_write(b, s, data, accepted) ==
  LET spare == b.capacity - Len(b.buf) IN
  IF Len(data) < spare
  THEN IoResult(TRUE, [b EXCEPT !.buf = @ \o data], s)
  ELSE LET f == IF Len(data) > spare THEN flush_buf(b, s) ELSE IoResult(TRUE, b, s) IN
       IF ~f.ok THEN f
       ELSE IF Len(data) >= b.capacity
       THEN IF f.s.broken THEN IoResult(FALSE, f.b, f.s)
            ELSE IoResult(TRUE, f.b,
                          [f.s EXCEPT !.bytes = @ \o SubSeq(data, 1, accepted)])
       ELSE IoResult(TRUE, [f.b EXCEPT !.buf = @ \o data], f.s)

\* BufWriter::flush: flush_buf, then the inner writer's own flush.
BufWriter_flush(b, s) == flush_buf(b, s)

\* The numbers of bytes one Write::write call on a file or stdout may accept: all
\* of them or, in at most MaxShortWrites calls of a run, fewer.
AcceptCounts(len) == IF shorts < MaxShortWrites THEN 1..len ELSE {len}

\* Whether BufWriter::write(data) hands data to the inner writer directly.
Direct(b, data) == Len(data) >= b.capacity - Len(b.buf) /\ Len(data) >= b.capacity

\* The count of short writes after a write of data that accepted `accepted` bytes.
CountShort(b, data, ok, accepted) ==
  IF ok /\ Direct(b, data) /\ accepted < Len(data) THEN shorts + 1 ELSE shorts

\* What the underlying file or stdout does to the I/O of one call: `accepted` is
\* the number of bytes a direct write takes; with `fails` the stream has begun to
\* fail (a full disk, a closed pipe) and every write of bytes to it is an Err from
\* now on.  At most MaxFaults streams fail in a run.
Faults == Cardinality({i \in DOMAIN stream : stream[i].broken})

IoOutcomes(len) ==
  [accepted : AcceptCounts(len), fails : IF Faults < MaxFaults THEN BOOLEAN ELSE {FALSE}]

Failing(s) == [s EXCEPT !.broken = TRUE]

\* format!("{message}\n")
FormatLine(message) == message \o <<NL>>

\* BufferedWriter::write_on_this_thread: a poisoned lock and an io::Error both panic
\* (ok = FALSE); a panic under the write guard poisons the lock.  The byte count
\* that write returns is dropped by expect(..); .
write_on_this_thread(message, b, s, io) ==
  IF b.poisoned THEN IoResult(FALSE, b, s)
  ELSE LET r == BufWriter_write(b, s, FormatLine(message), io.accepted)
           e == BufWriter_write(b, Failing(s), FormatLine(message), io.accepted)
       IN IF io.fails /\ ~e.ok
          THEN IoResult(FALSE, [e.b EXCEPT !.poisoned = TRUE], e.s)
          ELSE IF r.ok THEN r
          ELSE IoResult(FALSE, [r.b EXCEPT !.poisoned = TRUE], r.s)

\* BufferedWriter::flush_on_this_thread
flush_on_this_thread(b, s, io) ==
  IF b.poisoned THEN IoResult(FALSE, b, s)
  ELSE LET r == BufWriter_flush(b, s)
           e == BufWriter_flush(b, Failing(s))
       IN IF io.fails /\ ~e.ok
          THEN IoResult(FALSE, [e.b EXCEPT !.poisoned = TRUE], e.s)
          ELSE IF r.ok THEN r
          ELSE IoResult(FALSE, [r.b EXCEPT !.poisoned = TRUE], r.s)

\* MsgType
Msg(text) == [type |-> "Msg", text |-> text]
Flush == [type |-> "Flush", text |-> <<>>]

\* A send that puts the message at the front of the queue.
send_front(c, m) == IF c.receiver THEN [c EXCEPT !.queue = <<m>> \o @] ELSE c

\* Sender::send: Err when the receiver is gone, and then nothing is queued.
send(c, m) == IF c.receiver THEN [c EXCEPT !.queue = Append(@, m)] ELSE c


(***************************************************************************)
(* BufferedWriter: construction and init.  A sink struct keeps mode,       *)
(* buffer_capacity, buf_writer (Some = TRUE), thread_handler, sender; its  *)
(* target and file_path are read by init_writers only and are not kept.    *)
(* `level` is the sink's own minimum level (add_writer_*_with_level).      *)
(***************************************************************************)
Ok(v) == [ok |-> TRUE, value |-> v]
Err(v) == [ok |-> FALSE, value |-> v]

\* BufferedWriter::new
BufferedWriter_new ==
  [mode |-> "ThisThread", buffer_capacity |-> DEFAULT_BUFFER_CAPACITY,
   level |-> "Trace", buf_writer |-> FALSE, thread_handler |-> FALSE,
   sender |-> FALSE]

\* BufferedWriter::with_separate_thread
with_separate_thread(w) == [w EXCEPT !.mode = "SeparateThread"]

\* BufferedWriter::with_buffer_capacity
with_buffer_capacity(w, capacity) == [w EXCEPT !.buffer_capacity = capacity]

\* How an init can end: fs::create_dir_all and OpenOptions::open fail for a file
\* only, thread::Builder::spawn for a separate-thread writer only.
InitOutcomes(target, multi_thread) ==
  {"ok"} \cup (IF target = "File" THEN {"dir_error", "open_error"} ELSE {})
         \cup (IF multi_thread THEN {"spawn_error"} ELSE {})

\* BufferedWriter::init_writers
init_writers(w, target, outcome) ==
  IF target = "File" /\ outcome \in {"dir_error", "open_error"}
  THEN Err(w)
  ELSE Ok([w EXCEPT !.buf_writer = TRUE])

\* An init_separate_thread that clones the BufWriter for the closure and leaves
\* the original in the struct.
init_separate_thread_keep(w, outcome) ==
  LET shared == [w EXCEPT !.sender = TRUE] IN
  IF outcome = "spawn_error" THEN Err(shared)
  ELSE Ok([shared EXCEPT !.thread_handler = TRUE])

\* BufferedWriter::init_separate_thread: the sender is kept, the BufWriter is taken
\* out of the struct and moved into the spawned closure.
init_separate_thread(w, outcome) ==
  LET moved == [w EXCEPT !.sender = TRUE, !.buf_writer = FALSE] IN
  IF outcome = "spawn_error" THEN Err(moved)
  ELSE Ok([moved EXCEPT !.thread_handler = TRUE])

\* An init that swallows the error of either step and reports success.
BufferedWriter_init_always_ok(w, target, outcome) ==
  LET r == init_writers(w, target, outcome) IN
  IF ~r.ok THEN Ok(r.value)
  ELSE IF r.value.mode = "SeparateThread"
       THEN Ok(init_separate_thread(r.value, outcome).value)
       ELSE r

\* BufferedWriter::init
BufferedWriter_init(w, target, outcome) ==
  LET r == init_writers(w, target, outcome) IN
  IF ~r.ok THEN r
  ELSE IF r.value.mode = "SeparateThread"
       THEN init_separate_thread(r.value, outcome)
       ELSE r

(***************************************************************************)
(* Logger: builder.                                                        *)
(***************************************************************************)
Init ==
  /\ phase = "building"
  /\ log_level = "Trace"
  /\ writers = <<>>
  /\ wlock = <<>>
  /\ bufw = <<>>
  /\ stream = <<>>
  /\ chan = <<>>
  /\ worker = <<>>
  /\ global_logger = "none"
  /\ max_level = "Off"
  /\ pc = [p \in Producers |-> "idle"]
  /\ idx = [p \in Producers |-> 0]
  /\ msg = [p \in Producers |-> <<>>]
  /\ calls = [p \in Producers |-> <<>>]
  /\ late = [p \in Producers |-> FALSE]
  /\ flushes = [started |-> 0, returned |-> 0]
  /\ written = <<>>
  /\ applied = <<>>
  /\ shorts = 0
  /\ attempts = <<>>
  /\ last_op = <<>>
  /\ inits = <<>>
  /\ options = [timestamps |-> "Local", thread |-> FALSE, target |-> FALSE]
  /\ builder_call = <<>>

\* Logger::with_level
with_level(level) ==
  /\ phase = "building"
  /\ log_level' = level
  /\ builder_call' = <<"with_level", level>>
  /\ UNCHANGED << phase, writers, wlock, bufw, stream, chan, worker, global_logger,
                  max_level, pc, idx, msg, calls, late, flushes, written, applied, shorts,
                  attempts,
                  last_op, inits,
                  options >>

\* The Logger's fields other than timestamps, thread and target, and the rest of
\* the state, which the option methods below leave alone.
but_options ==
  << phase, log_level, writers, wlock, bufw, stream, chan, worker, global_logger,
     max_level, pc, idx, msg, calls, late, flushes, written, applied, shorts,
     attempts, last_op, inits >>

\* Logger::with_utc_timestamps
with_utc_timestamps ==
  /\ phase = "building"
  /\ options' = [options EXCEPT !.timestamps = "Utc"]
  /\ builder_call' = <<"with_utc_timestamps">>
  /\ UNCHANGED but_options

\* Logger::with_local_timestamps
with_local_timestamps ==
  /\ phase = "building"
  /\ options' = [options EXCEPT !.timestamps = "Local"]
  /\ builder_call' = <<"with_local_timestamps">>
  /\ UNCHANGED but_options

\* Logger::without_timestamps
without_timestamps ==
  /\ phase = "building"
  /\ options' = [options EXCEPT !.timestamps = "None"]
  /\ builder_call' = <<"without_timestamps">>
  /\ UNCHANGED but_options

\* Logger::with_thread
with_thread ==
  /\ phase = "building"
  /\ options' = [options EXCEPT !.thread = TRUE]
  /\ builder_call' = <<"with_thread">>
  /\ UNCHANGED but_options

\* Logger::with_target
with_target ==
  /\ phase = "building"
  /\ options' = [options EXCEPT !.target = TRUE]
  /\ builder_call' = <<"with_target">>
  /\ UNCHANGED but_options

\* A without_target written as a copy of with_target.
without_target_as_with_target ==
  /\ phase = "building"
  /\ options' = [options EXCEPT !.target = TRUE]
  /\ builder_call' = <<"without_target">>
  /\ UNCHANGED but_options

\* Logger::without_target
without_target ==
  /\ phase = "building"
  /\ options' = [options EXCEPT !.target = FALSE]
  /\ builder_call' = <<"without_target">>
  /\ UNCHANGED but_options

\* The body shared by add_writer_stdout, add_writer_file and the *_with_level
\* variant: build the writer, init it, push it on success, print on failure.
add_writer(target, multi_thread, capacity, level, outcome) ==
  LET w0 == [BufferedWriter_new EXCEPT !.level = level]
      w1 == IF multi_thread THEN with_separate_thread(w0) ELSE w0
      w2 == IF capacity = <<>> THEN w1 ELSE with_buffer_capacity(w1, capacity[1])
      r  == BufferedWriter_init(w2, target, outcome)
  IN
  /\ phase = "building"
  /\ Len(attempts) < MaxSinks
  /\ outcome \in InitOutcomes(target, multi_thread)
  /\ attempts' = Append(attempts, outcome)
  /\ IF r.ok
     THEN /\ writers' = Append(writers, r.value)
          /\ wlock' = Append(wlock, [holder |-> 0, poisoned |-> FALSE])
          /\ bufw' = Append(bufw, [capacity |-> r.value.buffer_capacity,
                                   buf |-> <<>>, poisoned |-> FALSE])
          /\ stream' = Append(stream, [bytes |-> <<>>, broken |-> FALSE])
          /\ chan' = Append(chan, [queue |-> <<>>, receiver |-> r.value.thread_handler])
          /\ worker' = Append(worker, IF r.value.thread_handler THEN "running" ELSE "none")
          /\ written' = Append(written, <<>>)
          /\ applied' = Append(applied, <<>>)
          /\ last_op' = Append(last_op, "none")
     ELSE UNCHANGED << writers, wlock, bufw, stream, chan, worker, written, applied,
                       last_op >>
  /\ UNCHANGED << phase, log_level, global_logger, max_level, pc, idx, msg, calls,
                  late, flushes, shorts, inits,
                  options, builder_call >>

\* Logger::add_writer_stdout
add_writer_stdout(multi_thread, capacity, outcome) ==
  add_writer("StdOut", multi_thread, capacity, "Trace", outcome)

\* Logger::add_writer_file
add_writer_file(multi_thread, capacity, outcome) ==
  add_writer("File", multi_thread, capacity, "Trace", outcome)

\* Logger::add_writer_file_with_level
add_writer_file_with_level(multi_thread, capacity, level, outcome) ==
  add_writer("File", multi_thread, capacity, level, outcome)

\* Drop of a BufWriter: it flushes its buffer and ignores the result.
drop_buf_writer(b, s) == LET r == flush_buf(b, s) IN [b |-> r.b, s |-> r.s]

\* Drop of the Logger with its writers: every sender is dropped, and so is every
\* BufWriter still held by its sink.
drop_writers ==
  /\ writers' = [i \in DOMAIN writers |->
                   [writers[i] EXCEPT !.sender = FALSE, !.buf_writer = FALSE]]
  /\ bufw' = [i \in DOMAIN bufw |->
                IF writers[i].buf_writer
                THEN drop_buf_writer(bufw[i], stream[i]).b ELSE bufw[i]]
  /\ stream' = [i \in DOMAIN stream |->
                  IF writers[i].buf_writer
                  THEN drop_buf_writer(bufw[i], stream[i]).s ELSE stream[i]]

\* A set_boxed_logger that replaces the logger registered before.
set_boxed_logger_replace(who) == [ok |-> TRUE, logger |-> who]

\* log::set_boxed_logger: the first call registers its logger; a later call is an
\* Err(SetLoggerError) and leaves the registered logger in place.
set_boxed_logger(who) ==
  IF global_logger = "none" THEN [ok |-> TRUE, logger |-> who]
  ELSE [ok |-> FALSE, logger |-> global_logger]

\* Logger::init: set_max_level, then set_boxed_logger, which fails and drops the
\* logger when one is registered already.
Logger_init ==
  LET r == set_boxed_logger("this") IN
  /\ phase = "building"
  /\ max_level' = log_level
  /\ global_logger' = r.logger
  /\ inits' = Append(inits, <<"this", IF r.ok THEN "ok" ELSE "err">>)
  /\ IF r.ok
     THEN /\ phase' = "initialized"
          /\ UNCHANGED << writers, bufw, stream >>
     ELSE /\ phase' = "dropped"
          /\ drop_writers
  /\ UNCHANGED << log_level, wlock, chan, worker, pc, idx, msg, calls, late, flushes,
                  written, applied, shorts, attempts, last_op, options, builder_call >>

\* The log calls made so far.
RECURSIVE SumCalls(_)
SumCalls(n) == IF n = 0 THEN 0 ELSE Len(calls[n]) + SumCalls(n - 1)
TotalCalls == SumCalls(NumProducers)

\* The init calls of other Logger values so far.
OtherInits == Cardinality({j \in DOMAIN inits : inits[j][1] = "other"})

\* Logger::new().with_level(level).init() of another Logger value, before or after
\* this logger's init.
other_init(level) ==
  LET r == set_boxed_logger("other") IN
  /\ OtherInits < MaxOtherInits
  /\ max_level' = level
  /\ global_logger' = r.logger
  /\ inits' = Append(inits, <<"other", IF r.ok THEN "ok" ELSE "err">>)
  /\ UNCHANGED << phase, log_level, writers, wlock, bufw, stream, chan, worker, pc,
                  idx, msg, calls, late, flushes, written, applied, shorts, attempts,
                  last_op, options, builder_call >>

\* The init of another Logger value that comes before this logger's init.
other_init_first(level) ==
  /\ phase = "building"
  /\ other_init(level)

(***************************************************************************)
(* BufferedWriter::write and ::flush.  w is the sink struct, b its         *)
(* BufWriter, s its stream, c its channel; the result is [ok, b, s, c],    *)
(* ok = FALSE a panic (an unwrap of None, or one of the panics below it).  *)
(***************************************************************************)
SinkResult(ok, b, s, c) == [ok |-> ok, b |-> b, s |-> s, c |-> c]

\* A write that writes to the BufWriter on the calling thread in either mode.
BufferedWriter_write_on_caller(w, message, b, s, c, io) ==
  LET r == write_on_this_thread(message, b, s, io) IN SinkResult(r.ok, r.b, r.s, c)

\* BufferedWriter::write
BufferedWriter_write(w, message, b, s, c, io) ==
  IF w.mode = "ThisThread"
  THEN IF ~w.buf_writer THEN SinkResult(FALSE, b, s, c)
       ELSE LET r == write_on_this_thread(message, b, s, io) IN
            SinkResult(r.ok, r.b, r.s, c)
  ELSE IF ~w.sender THEN SinkResult(FALSE, b, s, c)
       ELSE SinkResult(TRUE, b, s, send(c, Msg(message)))

\* A flush that flushes the BufWriter on the calling thread in either mode.
BufferedWriter_flush_on_caller(w, b, s, c, io) ==
  LET r == flush_on_this_thread(b, s, io) IN SinkResult(r.ok, r.b, r.s, c)

\* BufferedWriter::flush
BufferedWriter_flush(w, b, s, c, io) ==
  IF w.mode = "ThisThread"
  THEN IF ~w.buf_writer THEN SinkResult(FALSE, b, s, c)
       ELSE LET r == flush_on_this_thread(b, s, io) IN SinkResult(r.ok, r.b, r.s, c)
  ELSE IF ~w.sender THEN SinkResult(FALSE, b, s, c)
       ELSE SinkResult(TRUE, b, s, send(c, Flush))

\* BufferedWriter::flush_and_cleanup, which Logger::flush calls: the flush() of the
\* sink, each call following that sink's own flush semantics.
flush_and_cleanup(w, b, s, c, io) == BufferedWriter_flush(w, b, s, c, io)

(***************************************************************************)
(* Logger::enabled, Logger::log, Logger::flush, run by the producer        *)
(* threads.  One step takes the RwLock of self.writers[idx]; the next      *)
(* calls the sink and drops the guard.                                     *)
(***************************************************************************)
\* An enabled that wants the record strictly more severe than the level.
enabled_strict(level) == LevelNum[level] < LevelNum[log_level]

\* An enabled that lets every record through.
enabled_always(level) == TRUE

\* Logger::enabled
enabled(level) == LevelNum[level] <= LevelNum[log_level]

\* format!("{timestamp}-[{target}][{thread}] -> {{{}}} {}", ..): the formatted
\* message of producer p's k-th call.
FormatMessage(p, k) == [j \in 1..MsgLen(p) |-> <<p, k>>]

\* A loop that returns after its first iteration.
NextWriter_first_only(p, again) ==
  /\ idx' = [idx EXCEPT ![p] = 0]
  /\ pc' = [pc EXCEPT ![p] = "idle"]
  /\ late' = [late EXCEPT ![p] = FALSE]

\* The end of one iteration of `for writer in &self.writers`.
NextWriter(p, again) ==
  IF idx[p] < Len(writers)
  THEN /\ idx' = [idx EXCEPT ![p] = @ + 1]
       /\ pc' = [pc EXCEPT ![p] = again]
       /\ UNCHANGED late
  ELSE /\ idx' = [idx EXCEPT ![p] = 0]
       /\ pc' = [pc EXCEPT ![p] = "idle"]
       /\ late' = [late EXCEPT ![p] = FALSE]

\* Logger::log, up to the loop over the writers.
log_begin(p, level) ==
  /\ phase = "initialized"
  /\ pc[p] = "idle"
  /\ TotalCalls < MaxLogs
  /\ TotalCalls + flushes.started < MaxOps
  /\ (TotalCalls + 1) * Len(writers) <= MaxWrites
  /\ calls' = [calls EXCEPT ![p] = Append(@, level)]
  /\ IF enabled(level) /\ writers # <<>>
     THEN /\ msg' = [msg EXCEPT ![p] = FormatMessage(p, Len(calls[p]) + 1)]
          /\ idx' = [idx EXCEPT ![p] = 1]
          /\ pc' = [pc EXCEPT ![p] = "log"]
          /\ late' = [late EXCEPT ![p] = flushes.returned > 0]
     ELSE UNCHANGED << msg, idx, pc, late >>
  /\ UNCHANGED << phase, log_level, writers, wlock, bufw, stream, chan, worker,
                  global_logger, max_level, flushes, written, applied, shorts, attempts,
                  last_op, inits,
                  options, builder_call >>

\* writer.write() of the RwLock<BufferedWriter>: Err (and the panic) when poisoned.
TakeLock(p, held) ==
  /\ IF wlock[idx[p]].poisoned
     THEN /\ pc' = [pc EXCEPT ![p] = "panicked"]
          /\ UNCHANGED wlock
     ELSE /\ wlock[idx[p]].holder = 0
          /\ wlock' = [wlock EXCEPT ![idx[p]].holder = p]
          /\ pc' = [pc EXCEPT ![p] = held]
  /\ UNCHANGED << phase, log_level, writers, bufw, stream, chan, worker,
                  global_logger, max_level, idx, msg, calls, late, flushes, written,
                  applied, shorts, attempts,
                  last_op, inits,
                  options, builder_call >>

\* Logger::log: `if let Ok(writer_mut) = writer.write()`
log_lock(p) ==
  /\ pc[p] = "log"
  /\ TakeLock(p, "log_locked")

\* The record of an operation by a producer on sink i: on a ThisThread writer it
\* is an operation on the BufWriter, on a SeparateThread writer only a send.
LastOp(i, op, ok) ==
  IF writers[i].mode = "ThisThread"
  THEN [last_op EXCEPT ![i] = IF ok THEN op ELSE "failed"]
  ELSE last_op

\* A panic that leaks the guard: the lock stays held and is not poisoned.
PanicUnderLock_leak(p, i, r) ==
  /\ bufw' = [bufw EXCEPT ![i] = r.b]
  /\ stream' = [stream EXCEPT ![i] = r.s]
  /\ pc' = [pc EXCEPT ![p] = "panicked"]
  /\ UNCHANGED << wlock, chan, idx, late >>

\* A panic under the guard of self.writers[i]: the lock is poisoned, the thread dies.
PanicUnderLock(p, i, r) ==
  /\ bufw' = [bufw EXCEPT ![i] = r.b]
  /\ stream' = [stream EXCEPT ![i] = r.s]
  /\ wlock' = [wlock EXCEPT ![i] = [holder |-> 0, poisoned |-> TRUE]]
  /\ pc' = [pc EXCEPT ![p] = "panicked"]
  /\ UNCHANGED << chan, idx, late >>

\* Logger::log: writer_mut.write(message.as_str()), then the guard is dropped.
log_write(p) ==
  /\ pc[p] = "log_locked"
  /\ \E io \in IoOutcomes(Len(FormatLine(msg[p]))) :
       LET i == idx[p]
           r == BufferedWriter_write(writers[i], msg[p], bufw[i], stream[i],
                                     chan[i], io)
       IN IF r.ok
          THEN /\ bufw' = [bufw EXCEPT ![i] = r.b]
               /\ stream' = [stream EXCEPT ![i] = r.s]
               /\ chan' = [chan EXCEPT ![i] = r.c]
               /\ wlock' = [wlock EXCEPT ![i].holder = 0]
               /\ written' = [written EXCEPT ![i] = Append(@, msg[p])]
               /\ shorts' = IF writers[i].mode = "ThisThread"
                            THEN CountShort(bufw[i], FormatLine(msg[p]), TRUE,
                                            io.accepted)
                            ELSE shorts
               /\ last_op' = LastOp(i, "write", TRUE)
               /\ NextWriter(p, "log")
          ELSE /\ PanicUnderLock(p, i, r)
               /\ last_op' = LastOp(i, "write", FALSE)
               /\ UNCHANGED << written, shorts >>
  /\ UNCHANGED << phase, log_level, writers, worker, global_logger, max_level, msg,
                  calls, flushes, applied, attempts, inits,
                  options, builder_call >>

\* Logger::flush, up to the loop over the writers.
flush_begin(p) ==
  /\ phase = "initialized"
  /\ pc[p] = "idle"
  /\ flushes.started < MaxFlushes
  /\ TotalCalls + flushes.started < MaxOps
  /\ IF writers # <<>>
     THEN /\ idx' = [idx EXCEPT ![p] = 1]
          /\ pc' = [pc EXCEPT ![p] = "flush"]
          /\ flushes' = [flushes EXCEPT !.started = @ + 1]
     ELSE /\ flushes' = [started |-> flushes.started + 1,
                         returned |-> flushes.returned + 1]
          /\ UNCHANGED << idx, pc >>
  /\ UNCHANGED << phase, log_level, writers, wlock, bufw, stream, chan, worker,
                  global_logger, max_level, msg, calls, late, written, applied, shorts, attempts,
                  last_op, inits,
                  options, builder_call >>

\* Logger::flush: `if let Ok(mut writer_mut) = writer.write()`
flush_lock(p) ==
  /\ pc[p] = "flush"
  /\ TakeLock(p, "flush_locked")

\* Logger::flush: writer_mut.flush_and_cleanup(), then the guard is dropped.
flush_write(p) ==
  /\ pc[p] = "flush_locked"
  /\ \E io \in IoOutcomes(1) :
       LET i == idx[p]
           r == flush_and_cleanup(writers[i], bufw[i], stream[i], chan[i], io)
       IN IF r.ok
          THEN /\ bufw' = [bufw EXCEPT ![i] = r.b]
               /\ stream' = [stream EXCEPT ![i] = r.s]
               /\ chan' = [chan EXCEPT ![i] = r.c]
               /\ wlock' = [wlock EXCEPT ![i].holder = 0]
               /\ flushes' = IF i < Len(writers) THEN flushes
                             ELSE [flushes EXCEPT !.returned = @ + 1]
               /\ last_op' = LastOp(i, "flush", TRUE)
               /\ NextWriter(p, "flush")
          ELSE /\ PanicUnderLock(p, i, r)
               /\ last_op' = LastOp(i, "flush", FALSE)
               /\ UNCHANGED flushes
  /\ UNCHANGED << phase, log_level, writers, worker, global_logger, max_level, msg,
                  calls, written, applied, shorts, attempts, inits,
                  options, builder_call >>

(***************************************************************************)
(* The thread spawned by init_separate_thread.                             *)
(***************************************************************************)
\* One iteration of `while let Ok(new_message) = receiver.recv()`.  A panic ends
\* the thread: the receiver is dropped with what is queued, and so is the BufWriter.
worker_recv(i) ==
  /\ i \in DOMAIN worker
  /\ worker[i] = "running"
  /\ chan[i].queue # <<>>
  /\ LET m == Head(chan[i].queue) IN
     \E io \in IoOutcomes(Len(FormatLine(m.text))) :
       LET r == IF m.type = "Msg"
                THEN write_on_this_thread(m.text, bufw[i], stream[i], io)
                ELSE flush_on_this_thread(bufw[i], stream[i], io)
       IN /\ applied' = [applied EXCEPT ![i] = Append(@, m)]
          /\ last_op' = [last_op EXCEPT ![i] =
                           IF ~r.ok THEN "failed"
                           ELSE IF m.type = "Msg" THEN "write" ELSE "flush"]
          /\ shorts' = IF m.type = "Msg"
                       THEN CountShort(bufw[i], FormatLine(m.text), r.ok, io.accepted)
                       ELSE shorts
          /\ IF r.ok
             THEN /\ bufw' = [bufw EXCEPT ![i] = r.b]
                  /\ stream' = [stream EXCEPT ![i] = r.s]
                  /\ chan' = [chan EXCEPT ![i].queue = Tail(@)]
                  /\ UNCHANGED worker
             ELSE /\ bufw' = [bufw EXCEPT ![i] = drop_buf_writer(r.b, r.s).b]
                  /\ stream' = [stream EXCEPT ![i] = drop_buf_writer(r.b, r.s).s]
                  /\ chan' = [chan EXCEPT ![i] = [queue |-> <<>>, receiver |-> FALSE]]
                  /\ worker' = [worker EXCEPT ![i] = "panicked"]
  /\ UNCHANGED << phase, log_level, writers, wlock, global_logger, max_level, pc,
                  idx, msg, calls, late, flushes, written, attempts, inits,
                  options, builder_call >>

\* recv() returns Err: every sender is dropped and the queue is empty.  The loop
\* and the thread end, and the closure's BufWriter is dropped.
worker_exit(i) ==
  /\ i \in DOMAIN worker
  /\ worker[i] = "running"
  /\ chan[i].queue = <<>>
  /\ ~writers[i].sender
  /\ worker' = [worker EXCEPT ![i] = "terminated"]
  /\ chan' = [chan EXCEPT ![i].receiver = FALSE]
  /\ bufw' = [bufw EXCEPT ![i] = drop_buf_writer(bufw[i], stream[i]).b]
  /\ stream' = [stream EXCEPT ![i] = drop_buf_writer(bufw[i], stream[i]).s]
  /\ UNCHANGED << phase, log_level, writers, wlock, global_logger, max_level, pc,
                  idx, msg, calls, late, flushes, written, applied, shorts, attempts,
                  last_op, inits,
                  options, builder_call >>

Next ==
  \/ \E level \in GlobalLevelInputs : with_level(level)
  \/ \E mt \in BOOLEAN, cap \in CapacityInputs, o \in {"ok", "spawn_error"} :
       add_writer_stdout(mt, cap, o)
  \/ \E mt \in BOOLEAN, cap \in CapacityInputs,
        o \in {"ok", "dir_error", "open_error", "spawn_error"} :
       add_writer_file(mt, cap, o)
  \/ \E level \in SinkLevelInputs, o \in {"ok", "dir_error", "open_error"} :
       add_writer_file_with_level(FALSE, <<>>, level, o)
  \/ Logger_init
  \/ \E level \in GlobalLevelInputs : other_init_first(level)
  \/ \E p \in Producers, level \in RecordLevels : log_begin(p, level)
  \/ \E p \in Producers : log_lock(p)
  \/ \E p \in Producers : log_write(p)
  \/ \E p \in Producers : flush_begin(p)
  \/ \E p \in Producers : flush_lock(p)
  \/ \E p \in Producers : flush_write(p)
  \/ \E i \in 1..MaxSinks : worker_recv(i)
  \/ \E i \in 1..MaxSinks : worker_exit(i)

Spec == Init /\ [][Next]_vars

\* The life of the logger up to and around its registration, without the log and
\* flush calls: the builder calls, this logger's init, and the init of another
\* Logger value at any time.
InitNext ==
  \/ \E level \in GlobalLevelInputs : with_level(level)
  \/ \E mt \in BOOLEAN, cap \in CapacityInputs, o \in {"ok", "spawn_error"} :
       add_writer_stdout(mt, cap, o)
  \/ \E mt \in BOOLEAN, cap \in CapacityInputs,
        o \in {"ok", "dir_error", "open_error", "spawn_error"} :
       add_writer_file(mt, cap, o)
  \/ Logger_init
  \/ \E level \in GlobalLevelInputs : other_init(level)
  \/ \E i \in 1..MaxSinks : worker_exit(i)

InitSpec == Init /\ [][InitNext]_vars

\* log::LevelFilter and log::Level, all of their values.
LevelFilters == {"Off", "Error", "Warn", "Info", "Debug", "Trace"}
Levels == {"Error", "Warn", "Info", "Debug", "Trace"}

\* The builder: Logger::new, then the option methods and add_writer_* in any
\* order and number.
BuilderNext ==
  \/ \E level \in LevelFilters : with_level(level)
  \/ with_utc_timestamps
  \/ with_local_timestamps
  \/ without_timestamps
  \/ with_thread
  \/ with_target
  \/ without_target
  \/ \E mt \in BOOLEAN, cap \in CapacityInputs, o \in {"ok", "spawn_error"} :
       add_writer_stdout(mt, cap, o)

BuilderSpec == Init /\ [][BuilderNext]_vars

\* The logger under every global level and every record level: with_level, one
\* writer on this thread, init, and the log calls.
LevelNext ==
  \/ \E level \in LevelFilters : with_level(level)
  \/ \E cap \in CapacityInputs : add_writer_stdout(FALSE, cap, "ok")
  \/ Logger_init
  \/ \E p \in Producers, level \in Levels : log_begin(p, level)
  \/ \E p \in Producers : log_lock(p)
  \/ \E p \in Producers : log_write(p)

LevelSpec == Init /\ [][LevelNext]_vars

\* The threads are scheduled fairly: a worker that can receive a message, or find
\* its channel closed, does so, and a producer inside log or flush goes on.
FairSpec ==
  /\ Spec
  /\ \A i \in 1..MaxSinks : WF_vars(worker_recv(i)) /\ WF_vars(worker_exit(i))
  /\ \A p \in Producers :
       /\ WF_vars(log_lock(p)) /\ WF_vars(log_write(p))
       /\ WF_vars(flush_lock(p)) /\ WF_vars(flush_write(p))


(***************************************************************************)
(* Helpers of the properties.                                              *)
(***************************************************************************)
Range(seq) == {seq[j] : j \in DOMAIN seq}
Count(seq, x) == Cardinality({j \in DOMAIN seq : seq[j] = x})
SameBag(s1, s2) == \A x \in Range(s1) \cup Range(s2) : Count(s1, x) = Count(s2, x)

\* The producer and the call number a formatted message carries.
ProducerOf(message) == message[1][1]
CallOf(message) == message[1][2]

\* The texts of the Msg messages a worker has applied, in the order it took them.
AppliedLines(i) ==
  LET IsMsg(m) == m.type = "Msg"
      msgs == SelectSeq(applied[i], IsMsg)
  IN [j \in DOMAIN msgs |-> msgs[j].text]

FromProducer(seq, p) ==
  LET Mine(message) == ProducerOf(message) = p IN SelectSeq(seq, Mine)

InCallOrder(seq) ==
  \A a, b \in DOMAIN seq : a < b => CallOf(seq[a]) < CallOf(seq[b])

\* The bytes cut after every NL; a rest without NL is the last piece.
RECURSIVE SplitLines(_, _)
SplitLines(bytes, cur) ==
  IF bytes = <<>> THEN (IF cur = <<>> THEN <<>> ELSE <<cur>>)
  ELSE IF Head(bytes) = NL
       THEN <<Append(cur, NL)>> \o SplitLines(Tail(bytes), <<>>)
       ELSE SplitLines(Tail(bytes), Append(cur, Head(bytes)))

LinesOf(messages) == [j \in DOMAIN messages |-> FormatLine(messages[j])]

Sinks == DOMAIN writers
Background(i) == writers[i].mode = "SeparateThread"
Inline(i) == writers[i].mode = "ThisThread"

\* Producer p's k-th log call has returned (a panic is no return).
Returned(p, k) == k < Len(calls[p]) \/ (k = Len(calls[p]) /\ pc[p] = "idle")

(***************************************************************************)
(* C1.  Background sink, several producers: once the worker has drained    *)
(* the queue, the lines it applied hold each producer's lines in that      *)
(* producer's call order, and as a multiset they are the lines passed to   *)
(* write: none lost, none twice.                                           *)
(***************************************************************************)
Drained(i) == Background(i) /\ worker[i] = "running" /\ chan[i].queue = <<>>

C2_InlineOneLinePerWrite ==
  \A i \in Sinks :
    (Inline(i) /\ flushes.returned > 0 /\ bufw[i].buf = <<>>) =>
      SameBag(SplitLines(stream[i].bytes, <<>>), LinesOf(written[i]))

(***************************************************************************)
(* C3.  Per-sink level filtering: a record of severity R is written to a   *)
(* sink of level S under global level L if and only if R is at least as    *)
(* severe as L and as S.                                                   *)
(***************************************************************************)
AtLeastAsSevere(r, threshold) == LevelNum[r] <= LevelNum[threshold]

C3_PerSinkLevelFiltering ==
  \A i \in Sinks : \A p \in Producers : \A k \in DOMAIN calls[p] :
    Returned(p, k) =>
      (Count(written[i], FormatMessage(p, k)) = 1
         <=> (/\ AtLeastAsSevere(calls[p][k], log_level)
              /\ AtLeastAsSevere(calls[p][k], writers[i].level)))

(***************************************************************************)
(* C4.  flush() on a Background sink only enqueues a Flush message and     *)
(* returns, whatever the worker is doing: the step changes neither buffer  *)
(* nor stream.  The witness is a state where Logger::flush has returned    *)
(* and a line written before it has not reached the stream.                *)
(***************************************************************************)
C4_BackgroundFlushOnlyEnqueues ==
  /\ [](\A p \in Producers :
          (pc[p] = "flush_locked" /\ Background(idx[p])) => ENABLED flush_write(p))
  /\ [][\A p \in Producers :
          (pc[p] = "flush_locked" /\ pc'[p] # "flush_locked" /\ Background(idx[p])) =>
            /\ pc'[p] # "panicked"
            /\ bufw' = bufw
            /\ stream' = stream
            /\ worker' = worker
            /\ applied' = applied
            /\ chan'[idx[p]].queue =
                 IF chan[idx[p]].receiver
                 THEN Append(chan[idx[p]].queue, Flush)
                 ELSE chan[idx[p]].queue]_vars

C4_Witness ==
  \E i \in Sinks :
    /\ Background(i)
    /\ flushes.returned > 0
    /\ written[i] # <<>>
    /\ stream[i].bytes = <<>>
    /\ bufw[i].buf = <<>>
    /\ Len(chan[i].queue) = 2
    /\ chan[i].queue[1] = Msg(written[i][1])
    /\ chan[i].queue[2] = Flush

(***************************************************************************)
(* C5.  A write or flush of the stream that fails after init stops the     *)
(* process in either mode: after the failure no write() on that sink       *)
(* returns normally.                                                       *)
(***************************************************************************)
C5_NoWriteReturnsAfterFailure ==
  [][\A i \in Sinks : stream[i].broken => written'[i] = written[i]]_vars


(***************************************************************************)
(* C6.  After Logger::flush has returned on a logger with a separate-      *)
(* thread writer, a later log call of an enabled record panics: it never   *)
(* returns.                                                                *)
(***************************************************************************)
C6_LogAfterFlushPanics ==
  [][\A p \in Producers :
       (late[p] /\ pc[p] \in {"log", "log_locked"} /\ \E i \in Sinks : Background(i))
         => pc'[p] # "idle"]_vars

(***************************************************************************)
(* C7.  Logger::flush stops the thread of every separate-thread writer:    *)
(* once flush has returned, each worker eventually terminates.             *)
(***************************************************************************)
C7_FlushStopsWorkers ==
  \A i \in 1..MaxSinks :
    (i \in DOMAIN worker /\ flushes.returned > 0 /\ worker[i] = "running")
      ~> (i \in DOMAIN worker /\ worker[i] \in {"terminated", "panicked"})

(***************************************************************************)
(* C8.  After a sink's init exactly one of these holds: the sink holds its *)
(* BufWriter (ThisThread: no sender, no thread), or it holds the sender    *)
(* (SeparateThread: the BufWriter moved to its one worker).  The BufWriter *)
(* and stream of a SeparateThread sink change in steps of its worker only, *)
(* never in a producer's step.                                             *)
(***************************************************************************)
HoldsStream(i) ==
  /\ Inline(i)
  /\ writers[i].buf_writer /\ ~writers[i].sender /\ ~writers[i].thread_handler
  /\ worker[i] = "none" /\ chan[i].queue = <<>>

HoldsSender(i) ==
  /\ Background(i)
  /\ ~writers[i].buf_writer /\ writers[i].sender /\ writers[i].thread_handler
  /\ worker[i] # "none"

C8_StreamOrSender ==
  /\ [](phase # "dropped" =>
          \A i \in Sinks : (HoldsStream(i) \/ HoldsSender(i))
                           /\ ~(writers[i].buf_writer /\ writers[i].sender))
  /\ [][\A i \in Sinks :
          (Background(i) /\ (bufw'[i] # bufw[i] \/ stream'[i] # stream[i])) =>
            /\ pc' = pc
            /\ wlock' = wlock
            /\ worker[i] = "running"
            /\ applied'[i] # applied[i] \/ worker'[i] = "terminated"]_vars

C8_Witness ==
  /\ Len(writers) = 2
  /\ HoldsStream(1) /\ stream[1].bytes # <<>>
  /\ HoldsSender(2) /\ stream[2].bytes # <<>> /\ written[2] # <<>>

(***************************************************************************)
(* C9.  A sink whose init fails is not added to the logger's writers; the  *)
(* sinks added before and after it are untouched and every returned call   *)
(* of an enabled record has written to each of them.                       *)
(***************************************************************************)
OkCount == Cardinality({j \in DOMAIN attempts : attempts[j] = "ok"})

C9_FailedInitNotAdded ==
  /\ [](Len(writers) = OkCount)
  /\ [][(attempts' # attempts /\ attempts'[Len(attempts')] # "ok") =>
          UNCHANGED << writers, wlock, bufw, stream, chan, worker, written >>]_vars
  /\ [](\A i \in Sinks : \A p \in Producers : \A k \in DOMAIN calls[p] :
          (Returned(p, k) /\ enabled(calls[p][k])) =>
            Count(written[i], FormatMessage(p, k)) = 1)

C9_Witness ==
  /\ attempts = <<"open_error", "ok">>
  /\ Len(writers) = 1
  /\ \E p \in Producers : Len(written[1]) = 3 /\ pc[p] = "idle"

(***************************************************************************)
(* C10.  flush() on an Inline sink is synchronous: when it returns, the    *)
(* sink's buffer is empty and every line written to the sink before is in  *)
(* the underlying stream.                                                  *)
(***************************************************************************)
C10_InlineFlushSynchronous ==
  [][\A p \in Producers :
       (pc[p] = "flush_locked" /\ pc'[p] \in {"flush", "idle"} /\ Inline(idx[p])) =>
         /\ bufw'[idx[p]].buf = <<>>
         /\ SameBag(SplitLines(stream'[idx[p]].bytes, <<>>),
                    LinesOf(written[idx[p]]))]_vars

(***************************************************************************)
(* C11.  Flush is idempotent: a flush of a sink's BufWriter that comes     *)
(* right after a flush of it that succeeded, with no write in between,     *)
(* adds no byte to the stream and raises no error, on the caller's thread  *)
(* (ThisThread) and in the worker (SeparateThread) alike; nor does the     *)
(* caller of the second flush find the sink's lock poisoned.               *)
(***************************************************************************)
\* A producer's step is the flush() of ThisThread sink i.
InlineFlushStep(p, i) ==
  pc[p] = "flush_locked" /\ idx[p] = i /\ Inline(i) /\ pc'[p] # "flush_locked"

\* A worker's step handles a Flush message of SeparateThread sink i.
WorkerFlushStep(i) ==
  /\ Background(i) /\ worker[i] = "running" /\ chan[i].queue # <<>>
  /\ Head(chan[i].queue) = Flush /\ applied'[i] # applied[i]

C11_FlushIdempotent ==
  /\ [](\A p \in Producers :
          (pc[p] = "flush" /\ last_op[idx[p]] = "flush") => ~wlock[idx[p]].poisoned)
  /\ [][\A i \in Sinks :
          last_op[i] = "flush" =>
            /\ \A p \in Producers :
                 InlineFlushStep(p, i) =>
                   pc'[p] # "panicked" /\ stream'[i] = stream[i] /\ bufw'[i] = bufw[i]
            /\ WorkerFlushStep(i) =>
                 worker'[i] = "running" /\ stream'[i] = stream[i] /\ bufw'[i] = bufw[i]]_vars

\* Two flushes in a row have been done on a ThisThread sink and by the worker of
\* a SeparateThread sink, each after a line that the first flush delivered.
C11_Witness ==
  /\ Len(writers) = 2 /\ Inline(1) /\ Background(2)
  /\ flushes.returned = 2
  /\ last_op[1] = "flush" /\ stream[1].bytes # <<>>
  /\ last_op[2] = "flush" /\ stream[2].bytes # <<>>
  /\ Len(applied[2]) = 3 /\ applied[2][2] = Flush /\ applied[2][3] = Flush

(***************************************************************************)
(* C12.  A sink of buffer capacity 0 never keeps a line in its buffer: on  *)
(* a ThisThread sink the whole line is in the stream when write returns,   *)
(* on a SeparateThread sink when the worker has handled the message and    *)
(* before it takes the next, with no flush.                                *)
(***************************************************************************)
Unbuffered(i) == bufw[i].capacity = 0

C12_ZeroCapacityNoDelay ==
  /\ [](\A i \in Sinks : Unbuffered(i) => bufw[i].buf = <<>>)
  /\ [][\A i \in Sinks :
          Unbuffered(i) =>
            /\ (Inline(i) /\ written'[i] # written[i]) =>
                 stream'[i].bytes =
                   stream[i].bytes \o FormatLine(written'[i][Len(written'[i])])
            /\ (Background(i) /\ applied'[i] # applied[i] /\ worker'[i] = "running"
                   /\ Head(chan[i].queue).type = "Msg") =>
                 stream'[i].bytes =
                   stream[i].bytes \o FormatLine(Head(chan[i].queue).text)]_vars

(***************************************************************************)
(* C13.  A record that fails the global-level check leaves every sink      *)
(* unchanged: the log call returns at once, takes no sink's lock, appends  *)
(* no byte to a buffer or stream and enqueues no message.                  *)
(***************************************************************************)
\* Producer p's step is a log call of a record below the global level.
RejectedCall(p) ==
  /\ calls'[p] # calls[p]
  /\ ~AtLeastAsSevere(calls'[p][Len(calls'[p])], log_level)

C13_RejectedRecordTouchesNoSink ==
  [][\A p \in Producers :
       RejectedCall(p) =>
         /\ pc'[p] = "idle"
         /\ UNCHANGED << wlock, bufw, stream, chan, worker, written, applied, last_op >>]_vars

\* A rejected record's call has returned on a logger with a sink of each mode.
C13_Witness ==
  /\ Len(writers) = 2 /\ Inline(1) /\ Background(2)
  /\ \E p \in Producers :
       /\ pc[p] = "idle" /\ calls[p] # <<>>
       /\ ~AtLeastAsSevere(calls[p][Len(calls[p])], log_level)
       /\ \A i \in Sinks : written[i] = <<>> /\ chan[i].queue = <<>>

(***************************************************************************)
(* C14.  For one record that passes the global level, log calls write once *)
(* on every sink of the logger, in insertion order and with the same       *)
(* formatted line: a returned call has written its line exactly once to    *)
(* each sink, a call in progress at sink j exactly once to each sink       *)
(* before j and to no sink from j on, and at no time is a line written to  *)
(* a sink and not to a sink added before it.                               *)
(***************************************************************************)
Writes(i, p, k) == Count(written[i], FormatMessage(p, k))

C15_InitOneShot ==
  /\ global_logger = (IF inits = <<>> THEN "none" ELSE inits[1][1])
  /\ \A j \in DOMAIN inits : inits[j][2] = (IF j = 1 THEN "ok" ELSE "err")
  /\ phase = "initialized" <=> <<"this", "ok">> \in Range(inits)
  /\ phase = "dropped" <=> <<"this", "err">> \in Range(inits)

\* This logger was registered first and another Logger's init came after it.
C15_Witness ==
  /\ inits = << <<"this", "ok">>, <<"other", "err">> >>
  /\ global_logger = "this" /\ phase = "initialized"

(***************************************************************************)
(* C16.  enabled(record) is true exactly when the record's level is at     *)
(* least as severe as the logger's global level, equality included (a      *)
(* Debug record is enabled at level Debug, none at Off); a record for      *)
(* which enabled is false is written to no sink, an enabled one to every   *)
(* sink once its call has returned.                                        *)
(***************************************************************************)
\* For each global level, the record levels at least as severe as it.
SevereEnough ==
  [Off   |-> {},
   Error |-> {"Error"},
   Warn  |-> {"Error", "Warn"},
   Info  |-> {"Error", "Warn", "Info"},
   Debug |-> {"Error", "Warn", "Info", "Debug"},
   Trace |-> {"Error", "Warn", "Info", "Debug", "Trace"}]

C16_EnabledIffSevereEnough ==
  /\ \A r \in Levels : enabled(r) <=> r \in SevereEnough[log_level]
  /\ \A p \in Producers : \A k \in DOMAIN calls[p] : \A i \in Sinks :
       /\ calls[p][k] \notin SevereEnough[log_level] => Writes(i, p, k) = 0
       /\ (Returned(p, k) /\ calls[p][k] \in SevereEnough[log_level]) =>
            Writes(i, p, k) = 1

\* At global level Debug a Debug record was written and a Trace record was not.
C16_Witness ==
  /\ log_level = "Debug" /\ Len(writers) = 1
  /\ \E p \in Producers :
       /\ calls[p] = <<"Debug", "Trace">> /\ pc[p] = "idle"
       /\ written[1] = <<FormatMessage(p, 1)>>

(***************************************************************************)
(* C17.  A new Logger has level Trace and Local timestamps (no thread      *)
(* name, no target, no writer).  Each builder option method sets its own   *)
(* option to the value asked for and leaves every other option and the     *)
(* list of writers as they were; a step that is no option method changes   *)
(* no option.  Hence the last call for an option wins.                     *)
(***************************************************************************)
\* The options after a call of method m with argument arg.
OptionsAfter(m, arg) ==
  [log_level  |-> IF m = "with_level" THEN arg ELSE log_level,
   timestamps |-> CASE m = "with_utc_timestamps" -> "Utc"
                    [] m = "with_local_timestamps" -> "Local"
                    [] m = "without_timestamps" -> "None"
                    [] OTHER -> options.timestamps,
   thread     |-> IF m = "with_thread" THEN TRUE ELSE options.thread,
   target     |-> CASE m = "with_target" -> TRUE
                    [] m = "without_target" -> FALSE
                    [] OTHER -> options.target]

C17_BuilderSetsOwnOption ==
  /\ log_level = "Trace"
  /\ options = [timestamps |-> "Local", thread |-> FALSE, target |-> FALSE]
  /\ writers = <<>>
  /\ [][IF builder_call' = builder_call
        THEN log_level' = log_level /\ options' = options
        ELSE LET m == builder_call'[1]
                 arg == IF Len(builder_call') > 1 THEN builder_call'[2] ELSE "Off"
                 after == OptionsAfter(m, arg)
             IN /\ log_level' = after.log_level
                /\ options' = [timestamps |-> after.timestamps,
                               thread |-> after.thread, target |-> after.target]
                /\ UNCHANGED << writers, wlock, bufw, stream, chan, worker, attempts >>]_vars

\* Every option has been set away from its default, target back again, and a
\* writer was added in between.
C17_Witness ==
  /\ builder_call = <<"without_target">>
  /\ log_level = "Debug"
  /\ options = [timestamps |-> "Utc", thread |-> TRUE, target |-> FALSE]
  /\ Len(writers) = 1

(***************************************************************************)
(* C18.  The worker of a SeparateThread sink applies lines and Flush       *)
(* messages in the order they were enqueued: a send puts its message at    *)
(* the tail of the queue, the worker takes the head; and when it has       *)
(* executed a Flush, the stream holds every line enqueued before that      *)
(* Flush, whole and in order, and no line enqueued after it has been       *)
(* written to the buffer.                                                  *)
(***************************************************************************)
\* A producer's step is a write() or flush() on SeparateThread sink i.
SendStep(p, i) ==
  /\ pc[p] \in {"log_locked", "flush_locked"} /\ idx[p] = i /\ Background(i)
  /\ pc'[p] \notin {pc[p], "panicked"}

SentBy(p) == IF pc[p] = "log_locked" THEN Msg(msg[p]) ELSE Flush

C18_WorkerAppliesInQueueOrder ==
  [][\A i \in Sinks :
       /\ \A p \in Producers :
            (SendStep(p, i) /\ chan[i].receiver) =>
              chan'[i].queue = Append(chan[i].queue, SentBy(p))
       /\ (Background(i) /\ applied'[i] # applied[i]) =>
            /\ applied'[i] = Append(applied[i], Head(chan[i].queue))
            /\ worker'[i] = "running" => chan'[i].queue = Tail(chan[i].queue)
       /\ (WorkerFlushStep(i) /\ worker'[i] = "running") =>
            /\ SplitLines(stream'[i].bytes, <<>>) = LinesOf(AppliedLines(i))
            /\ bufw'[i].buf = <<>>]_vars

(***************************************************************************)
(* C19.  A worker stops in one way only: every sender has been dropped and *)
(* the queue is empty.  While the sink holds its sender the worker does    *)
(* not stop, and when it stops no enqueued message is left unprocessed.    *)
(***************************************************************************)
C19_WorkerStopsOnlyWhenSendersGone ==
  [][\A i \in Sinks :
       (Background(i) /\ worker[i] = "running" /\ worker'[i] # "running") =>
         /\ ~writers[i].sender
         /\ chan[i].queue = <<>>]_vars

(***************************************************************************)
(* C20.  With the worker scheduled fairly and the process running, every   *)
(* Flush message enqueued on a SeparateThread sink is eventually executed, *)
(* and the lines enqueued before it are then in the stream.                *)
(***************************************************************************)
\* The Flush messages sink i's worker has executed: those it took off the queue,
\* but for the one it panicked on.
FlushesExecuted(i) ==
  Count(applied[i], Flush)
    - (IF worker[i] = "panicked" /\ applied[i][Len(applied[i])] = Flush THEN 1 ELSE 0)

\* The Flush messages enqueued on sink i and still known: executed or queued.
FlushesEnqueued(i) == Count(applied[i], Flush) + Count(chan[i].queue, Flush)

\* The lines sink i's worker took off the queue before the n-th Flush.
LinesBeforeFlush(i, n) ==
  LET IsFlush(j) == applied[i][j] = Flush
      at == CHOOSE j \in DOMAIN applied[i] :
              IsFlush(j) /\ Cardinality({h \in 1..j : IsFlush(h)}) = n
  IN {FormatLine(applied[i][j].text) : j \in {h \in 1..at : ~IsFlush(h)}}

C20_EnqueuedFlushIsExecuted ==
  \A i \in 1..MaxSinks : \A n \in 1..MaxFlushes :
    (i \in Sinks /\ Background(i) /\ FlushesEnqueued(i) >= n)
      ~> (/\ i \in Sinks
          /\ FlushesExecuted(i) >= n
          /\ LinesBeforeFlush(i, n) \subseteq Range(SplitLines(stream[i].bytes, <<>>)))

(***************************************************************************)
(* C21.  write() on a SeparateThread sink only sends one Msg to the queue: *)
(* the step is enabled whatever the worker is doing and however long the   *)
(* queue is, it returns, and it changes neither the sink's buffer nor its  *)
(* stream nor what the worker has done.  (A send to a channel whose        *)
(* receiver is gone is an Err that write drops: nothing is queued.)        *)
(***************************************************************************)
C21_BackgroundWriteOnlyEnqueues ==
  /\ [](\A p \in Producers :
          (pc[p] = "log_locked" /\ Background(idx[p])) => ENABLED log_write(p))
  /\ [][\A p \in Producers :
          (pc[p] = "log_locked" /\ pc'[p] # "log_locked" /\ Background(idx[p])) =>
            /\ pc'[p] # "panicked"
            /\ bufw' = bufw
            /\ stream' = stream
            /\ worker' = worker
            /\ applied' = applied
            /\ written'[idx[p]] = Append(written[idx[p]], msg[p])
            /\ chan'[idx[p]].queue =
                 IF chan[idx[p]].receiver
                 THEN Append(chan[idx[p]].queue, Msg(msg[p]))
                 ELSE chan[idx[p]].queue]_vars

\* Three writes have returned on a SeparateThread sink whose worker has taken
\* none of them: the queue holds the three lines, the stream nothing.
C21_Witness ==
  \E i \in Sinks :
    /\ Background(i) /\ worker[i] = "running"
    /\ Len(written[i]) = 3 /\ applied[i] = <<>>
    /\ chan[i].queue = [j \in 1..3 |-> Msg(written[i][j])]
    /\ stream[i].bytes = <<>> /\ bufw[i].buf = <<>>
    /\ \A p \in Producers : pc[p] = "idle"

(***************************************************************************)
(* C22.  Lock poisoning is unrecoverable: once a thread has panicked while *)
(* it held a sink's lock (the RwLock of the BufferedWriter or that of its  *)
(* BufWriter), every later log or flush that reaches the sink panics, and  *)
(* the sink's buffer and stream change no more.                            *)
(***************************************************************************)
Poisoned(i) == wlock[i].poisoned \/ bufw[i].poisoned

\* Producer p's step is one of its log or flush call at sink i.
ReachesSink(p, i) ==
  /\ idx[p] = i
  /\ pc[p] \in {"log", "log_locked", "flush", "flush_locked"}
  /\ pc'[p] # pc[p]

C22_PoisonedSinkPanics ==
  [][\A i \in Sinks :
       Poisoned(i) =>
         /\ stream'[i] = stream[i]
         /\ bufw'[i] = bufw[i]
         /\ \A p \in Producers : ReachesSink(p, i) => pc'[p] = "panicked"]_vars

(***************************************************************************)
(* C23.  No deadlock: while a log or flush call is in progress, that       *)
(* producer can take a step, or it waits for a sink's lock whose holder    *)
(* can take a step.  A producer holds at most one sink's lock at a time,   *)
(* and only between taking it and its call on that sink; a worker's step   *)
(* takes no sink's lock and touches its own buffer and stream only.        *)
(***************************************************************************)
InCall(p) == pc[p] \in {"log", "log_locked", "flush", "flush_locked"}

CanStep(p) ==
  ENABLED (log_lock(p) \/ log_write(p) \/ flush_lock(p) \/ flush_write(p))

LocksHeldBy(p) == {i \in Sinks : wlock[i].holder = p}

C23_NoDeadlock ==
  /\ [](\A p \in Producers :
          InCall(p) =>
            \/ CanStep(p)
            \/ /\ pc[p] \in {"log", "flush"}
               /\ wlock[idx[p]].holder \in Producers \ {p}
               /\ CanStep(wlock[idx[p]].holder))
  /\ [](\A p \in Producers :
          LocksHeldBy(p) =
            (IF pc[p] \in {"log_locked", "flush_locked"} THEN {idx[p]} ELSE {}))
  /\ [][\A i \in Sinks :
          applied'[i] # applied[i] =>
            /\ wlock' = wlock
            /\ \A j \in Sinks \ {i} : bufw'[j] = bufw[j] /\ stream'[j] = stream[j]]_vars

\* One producer holds the lock of the first sink inside log, the other waits
\* for it inside flush, and the worker of the second sink is running.
C23_Witness ==
  /\ Len(writers) = 2 /\ Inline(1) /\ Background(2) /\ worker[2] = "running"
  /\ \E p, q \in Producers :
       /\ pc[p] = "log_locked" /\ idx[p] = 1 /\ wlock[1].holder = p
       /\ pc[q] = "flush" /\ idx[q] = 1

(***************************************************************************)
(* C24.  An init call that fails because a logger is registered already    *)
(* leaves the log crate's global state as it was: the registered logger    *)
(* and the global maximum level stay as the first, successful init set     *)
(* them.                                                                   *)
(***************************************************************************)
\* The step is an init call that returned Err.
FailedInit == Len(inits') = Len(inits) + 1 /\ inits'[Len(inits')][2] = "err"

C24_FailedInitChangesNothingGlobal ==
  [][FailedInit => (global_logger' = global_logger /\ max_level' = max_level)]_vars

====
